---- MODULE Spec2Model ----
(***************************************************************************)
(* libArchStatic: pack a directory tree into a tar.gz container and        *)
(* restore it (src/main.cpp, lines 1-299).  The archive codec (libarchive) *)
(* and the host filesystem (std::filesystem) are modelled at the calls the *)
(* program makes to them.                                                  *)
(*                                                                         *)
(* A path string is a sequence of one-character strings.  A path on the    *)
(* modelled disk is a sequence of components, each component a string.     *)
(*                                                                         *)
(* Where a value is used several times it is bound by a quantifier or a    *)
(* CHOOSE over a one-element set, so that it is computed once.             *)
(***************************************************************************)
EXTENDS Integers, Sequences, FiniteSets, TLC

(***************************************************************************)
(* Strings                                                                 *)
(***************************************************************************)
StartsWith(s, pre) ==
    /\ Len(s) >= Len(pre)
    /\ SubSeq(s, 1, Len(pre)) = pre

Drop(s, n) == SubSeq(s, n + 1, Len(s))

RECURSIVE Flatten(_)
Flatten(ss) == IF ss = <<>> THEN <<>> ELSE Head(ss) \o Flatten(Tail(ss))

RECURSIVE JoinWith(_, _)
JoinWith(comps, sep) ==
    IF comps = <<>> THEN <<>>
    ELSE IF Len(comps) = 1 THEN Head(comps)
    ELSE Head(comps) \o <<sep>> \o JoinWith(Tail(comps), sep)

\* "\\?\" : the extended-length path marker tested at main.cpp:68 and :207
ELMarker == << "\\", "\\", "?", "\\" >>

\* directory separators of the build: '/' and, under _WIN32, also '\'
IsSep(win, ch) == ch = "/" \/ (win /\ ch = "\\")

PreferredSep(win) == IF win THEN "\\" ELSE "/"

(***************************************************************************)
(* std::filesystem::path decomposition                                     *)
(***************************************************************************)
\* root-name of a path string: under _WIN32 a drive designator, any
\* non-separator character followed by ':' (network root names are not modelled)
RootName(win, s) ==
    IF win /\ Len(s) >= 2 /\ ~IsSep(win, s[1]) /\ s[2] = ":"
    THEN SubSeq(s, 1, 2) ELSE <<>>

HasRootDirectory(win, s) ==
    LET r == Drop(s, Len(RootName(win, s)))
    IN  r # <<>> /\ IsSep(win, r[1])

IsAbsolute(win, s) ==
    IF win THEN RootName(win, s) # <<>> /\ HasRootDirectory(win, s)
    ELSE HasRootDirectory(win, s)

\* the components between separators, empty ones dropped
RECURSIVE SplitAcc(_, _, _)
SplitAcc(win, s, cur) ==
    IF s = <<>> THEN (IF cur = <<>> THEN <<>> ELSE <<cur>>)
    ELSE IF IsSep(win, Head(s))
         THEN (IF cur = <<>> THEN <<>> ELSE <<cur>>) \o SplitAcc(win, Tail(s), <<>>)
         ELSE SplitAcc(win, Tail(s), Append(cur, Head(s)))

Components(win, s) == SplitAcc(win, Drop(s, Len(RootName(win, s))), <<>>)

DotDot == << ".", "." >>
Dot == << "." >>

\* resolution of "." and ".." against the components seen so far; ".." at
\* the root stays at the root
RECURSIVE NormAcc(_, _)
NormAcc(comps, acc) ==
    IF comps = <<>> THEN acc
    ELSE IF Head(comps) = Dot THEN NormAcc(Tail(comps), acc)
    ELSE IF Head(comps) = DotDot
         THEN NormAcc(Tail(comps),
                      IF acc = <<>> THEN <<>> ELSE SubSeq(acc, 1, Len(acc) - 1))
         ELSE NormAcc(Tail(comps), Append(acc, Head(comps)))

LexicallyNormal(comps) == NormAcc(comps, <<>>)

\* path::operator/ (main.cpp:212)
PathAppend(win, lhs, p) ==
    IF IsAbsolute(win, p)
       \/ (RootName(win, p) # <<>> /\ RootName(win, p) # RootName(win, lhs))
    THEN p
    ELSE IF HasRootDirectory(win, p)
    THEN RootName(win, lhs) \o Drop(p, Len(RootName(win, p)))
    ELSE IF lhs # <<>> /\ ~IsSep(win, lhs[Len(lhs)])
    THEN lhs \o <<PreferredSep(win)>> \o Drop(p, Len(RootName(win, p)))
    ELSE lhs \o Drop(p, Len(RootName(win, p)))

(***************************************************************************)
(* Path normalisation of the program                                       *)
(***************************************************************************)
\* main.cpp:65-75
sanitizePathForArchive(win, p) ==
    IF win /\ StartsWith(p, ELMarker) THEN Drop(p, 4) ELSE p

RECURSIVE StripLeadingSeps(_)
StripLeadingSeps(s) ==
    IF s # <<>> /\ (s[1] = "\\" \/ s[1] = "/")
    THEN StripLeadingSeps(Tail(s)) ELSE s

\* main.cpp:206-210, compiled only under _WIN32
restoreStrip(win, relPath) ==
    IF ~win THEN relPath
    ELSE LET r1 == IF StartsWith(relPath, ELMarker) THEN Drop(relPath, 4) ELSE relPath
             r2 == IF Len(r1) >= 2 /\ r1[2] = ":" THEN Drop(r1, 2) ELSE r1
         IN  StripLeadingSeps(r2)

(***************************************************************************)
(* Permission bits                                                         *)
(***************************************************************************)
BitSet(v, b) == (v \div b) % 2 = 1

\* the nine permission bits S_IRUSR .. S_IXOTH tested at main.cpp:52-60
PermBits == {256, 128, 64, 32, 16, 8, 4, 2, 1}

RECURSIVE SumSet(_)
SumSet(S) == IF S = {} THEN 0
             ELSE LET x == CHOOSE y \in S : TRUE IN x + SumSet(S \ {x})

\* the permission value cast to a mode, set-id and sticky bits included
permsToMode_cast(p) == p % 4096

\* main.cpp:50-62
permsToMode(p) == SumSet({b \in PermBits : BitSet(p, b)})

(***************************************************************************)
(* The disk: a function from paths (sequences of components) to nodes.     *)
(* The root <<>> is a directory and is not in the domain.                  *)
(***************************************************************************)
FileNode(perms, content) ==
    [kind |-> "file", perms |-> perms, content |-> content, target |-> <<>>]
DirNode(perms) ==
    [kind |-> "dir", perms |-> perms, content |-> <<>>, target |-> <<>>]
LinkNode(target) ==
    [kind |-> "symlink", perms |-> 511, content |-> <<>>, target |-> target]

Parent(p) == SubSeq(p, 1, Len(p) - 1)

IsPrefix(p, q) == Len(p) <= Len(q) /\ SubSeq(q, 1, Len(p)) = p

ChildrenOf(d, dir) == {p \in DOMAIN d : Len(p) = Len(dir) + 1 /\ Parent(p) = dir}

\* number of symbolic links followed in one path resolution before ELOOP
MaxSymlinkHops == 3

\* path resolution as the kernel performs it: every symbolic link on the
\* way is followed, the last component too when followLast holds
RECURSIVE Walk(_, _, _, _, _, _)
Walk(win, d, cur, todo, followLast, fuel) ==
    IF todo = <<>> THEN [st |-> "ok", path |-> cur]
    ELSE LET c == Head(todo)
             rest == Tail(todo)
             nxt == Append(cur, c)
         IN  IF c = Dot THEN Walk(win, d, cur, rest, followLast, fuel)
             ELSE IF c = DotDot
             THEN Walk(win, d, IF cur = <<>> THEN <<>> ELSE Parent(cur), rest, followLast, fuel)
             ELSE IF nxt \notin DOMAIN d
             THEN [st |-> "missing", path |-> nxt \o rest]
             ELSE IF d[nxt].kind = "symlink" /\ (rest # <<>> \/ followLast)
             THEN IF fuel = 0 THEN [st |-> "loop", path |-> nxt \o rest]
                  ELSE Walk(win, d,
                            IF HasRootDirectory(win, d[nxt].target) THEN <<>> ELSE cur,
                            Components(win, d[nxt].target) \o rest, followLast, fuel - 1)
             ELSE IF d[nxt].kind # "dir" /\ rest # <<>>
             THEN [st |-> "notdir", path |-> nxt \o rest]
             ELSE Walk(win, d, nxt, rest, followLast, fuel)

Stat(win, d, p) == Walk(win, d, <<>>, p, TRUE, MaxSymlinkHops)
LStat(win, d, p) == Walk(win, d, <<>>, p, FALSE, MaxSymlinkHops)

KindAt(d, p) == IF p = <<>> THEN "dir" ELSE d[p].kind

\* fs::status(p).type() and fs::symlink_status(p).type()
StatusKind(win, d, p) ==
    LET w == Stat(win, d, p) IN IF w.st = "ok" THEN KindAt(d, w.path) ELSE w.st
\* a classification that follows the link
SymlinkStatusKind_following(win, d, p) == StatusKind(win, d, p)

SymlinkStatusKind(win, d, p) ==
    LET w == LStat(win, d, p) IN IF w.st = "ok" THEN KindAt(d, w.path) ELSE w.st

\* fs::weakly_canonical: the longest leading part that exists is resolved,
\* the rest is appended
weakly_canonical(win, d, p) ==
    LET ks == {i \in 0..Len(p) : Stat(win, d, SubSeq(p, 1, i)).st = "ok"}
    IN  CHOOSE c \in {LexicallyNormal(Stat(win, d, SubSeq(p, 1, k)).path
                                      \o SubSeq(p, k + 1, Len(p))) :
                         k \in {i \in ks : \A j \in ks : j <= i}} : TRUE

RECURSIVE CommonLen(_, _)
CommonLen(p, q) ==
    IF p # <<>> /\ q # <<>> /\ Head(p) = Head(q)
    THEN 1 + CommonLen(Tail(p), Tail(q)) ELSE 0

\* path::lexically_relative
lexically_relative(p, base) ==
    LET n == CommonLen(p, base)
        ups == [i \in 1..(Len(base) - n) |-> DotDot]
        r == ups \o Drop(p, n)
    IN  IF r = <<>> THEN <<Dot>> ELSE r

\* fs::relative(path, baseDir).string()  (main.cpp:84)
relative(win, d, path, baseDir) ==
    CHOOSE str \in {JoinWith(rel, PreferredSep(win)) :
                       rel \in {lexically_relative(cp, cb) :
                                   cp \in {weakly_canonical(win, d, path)},
                                   cb \in {weakly_canonical(win, d, baseDir)}}} : TRUE

(***************************************************************************)
(* State                                                                   *)
(***************************************************************************)
VARIABLES
    win,          \* the build: TRUE when compiled with _WIN32
    disk,         \* the filesystem
    faults,       \* number of environment failures injected so far
    pc,           \* position of the program
    argc,         \* main: argument count
    cmd,          \* main: argv[1]
    dst,          \* main: argv[3], a path string
    exitCode,     \* main: the exit status of the process, -1 while it runs
    startUmask,   \* the umask the process was started with
    a,            \* pack: the write session
    it,           \* pack: recursive_directory_iterator, a stack of pending paths
    yielded,      \* pack: the paths the iterator has produced, in order
    attempted,    \* pack: the paths addFile was called with, in order
    addResults,   \* pack: per addFile call, what it returned (ret), the result
                  \* of its header commit (res), the headers in the container (n)
    packResult,   \* pack: what packDirectory returned
    archive,      \* unpack: the headers and bodies the container holds
    rd,           \* unpack: the read session (the variable a of unpackArchive)
    ext,          \* unpack: the disk-write session
    entry,        \* unpack: the header being processed
    r,            \* unpack: result of the header commit
    umask,        \* the process umask
    old_umask,    \* unpack: the saved umask
    handed,       \* unpack: the pathnames handed to the disk-write session
    outcomes,     \* unpack: per header read, what became of it
    unpackResult, \* unpack: what unpackArchive returned
    events,       \* the calls made to the codec and to source files, in order
    pathText,     \* normalization: the path string
    normCalls     \* normalization: the functions applied to it so far, in order

envVars == <<win, faults>>
mainVars == <<argc, cmd, dst, exitCode, startUmask>>
packVars == <<a, it, yielded, attempted, addResults, packResult>>
unpackVars == <<archive, rd, ext, entry, r, umask, old_umask, handed, outcomes, unpackResult>>
vars == <<win, disk, faults, pc, argc, cmd, dst, exitCode, startUmask, a, it, yielded, attempted,
          addResults, packResult, archive, rd, ext, entry, r, umask, old_umask,
          handed, outcomes, unpackResult, events, pathText, normCalls>>
normVars == <<pathText, normCalls>>

\* most environment failures injected in one run
MaxFaults == 1

(***************************************************************************)
(* The directories of the model                                            *)
(***************************************************************************)
S == <<"s">>
D == <<"d">>
E == <<"e">>
A == <<"a">>
B == <<"b">>
C == <<"c">>

\* the source directory given to pack
srcDir == <<S>>
\* the destination root given to unpack, as main.cpp:277 makes it absolute
destComps == <<D>>
destDir(w) == IF w THEN <<"C", ":", "\\", "d">> ELSE <<"/", "d">>

(***************************************************************************)
(* The write session of pack, as libarchive keeps it                       *)
(***************************************************************************)
\* state: "none" (never created), "open", "fatal", "closed" (closed and freed);
\* opened: whether the container file was opened; entries: the headers written,
\* each with the body blocks written after it
NoSession == [state |-> "none", opened |-> FALSE, entries |-> <<>>]
OpenSession == [state |-> "open", opened |-> TRUE, entries |-> <<>>]

\* std::ifstream::read in chunks of sizeof(buf)  (main.cpp:126-127)
ChunkSize == 8192

\* a read loop that stops at the first short read and so drops the last,
\* partial chunk
RECURSIVE Blocks_fullOnly(_)
Blocks_fullOnly(content) ==
    IF Len(content) < ChunkSize THEN <<>>
    ELSE <<SubSeq(content, 1, ChunkSize)>> \o Blocks_fullOnly(Drop(content, ChunkSize))

\* main.cpp:127-134: the chunks the read loop hands to archive_write_data
RECURSIVE Blocks(_)
Blocks(content) ==
    IF content = <<>> THEN <<>>
    ELSE IF Len(content) <= ChunkSize THEN <<content>>
    ELSE <<SubSeq(content, 1, ChunkSize)>> \o Blocks(Drop(content, ChunkSize))

\* archive_write_header on the write session: the header is appended when
\* the codec wrote it; a FATAL result leaves the session unusable
WriteHeader(sess, e, res, written) ==
    [sess EXCEPT !.entries = IF written THEN Append(@, e) ELSE @,
                 !.state = IF res = "FATAL" THEN "fatal" ELSE @]

\* archive_write_data: the bytes go to the entry whose header was written last
WriteData(sess, blocks) ==
    IF sess.entries = <<>> THEN sess
    ELSE [sess EXCEPT !.entries[Len(sess.entries)].blocks = @ \o blocks]

\* what the environment may do during one addFile call
AddChoice == [pre : {"ok", "throw", "noentry"},
              res : {"OK", "WARN", "FAILED", "FATAL"},
              written : BOOLEAN, canOpen : BOOLEAN, failAt : 0..2]

NoFault == [pre |-> "ok", res |-> "OK", written |-> TRUE, canOpen |-> TRUE, failAt |-> 0]

B2N(b) == IF b THEN 1 ELSE 0

FaultsOf(sess, ch) ==
    B2N(ch.pre # "ok") + B2N(ch.res # "OK" /\ sess.state # "fatal")
    + B2N(~ch.canOpen) + B2N(ch.failAt > 0)

\* the choices that make sense for an object of this kind and content
Feasible(sess, kind, content, ch) ==
    /\ ch.pre # "ok" => ch = [NoFault EXCEPT !.pre = ch.pre]
    /\ sess.state = "fatal" /\ ch.pre = "ok" => ch.res = "FATAL"
    /\ ch.res = "OK" => ch.written
    /\ ch.res \in {"FAILED", "FATAL"} => ~ch.written
    /\ ~(kind = "file" /\ ch.res \in {"OK", "WARN"}) => ch.canOpen /\ ch.failAt = 0
    /\ ~ch.canOpen => ch.failAt = 0
    /\ ch.failAt <= Len(Blocks(content))

\* one call to the codec or to a source file: which operation, for which
\* entry (the number of the addFile call in pack, of the header in unpack),
\* the kind of the entry and, for a header, the result
Ev(side, n, kind, op, res) == [side |-> side, n |-> n, kind |-> kind, op |-> op, res |-> res]

\* a stream that is never closed
streamEvents_leaked(n, nwrites) ==
    <<Ev("pack", n, "file", "open", "none")>>
    \o [i \in 1..nwrites |-> Ev("pack", n, "file", "data", "none")]

\* main.cpp:123-135: the source file is opened, every chunk goes to
\* archive_write_data, and the std::ifstream closes the file when addFile
\* leaves the block, by a return or at its end
streamEvents(n, nwrites) ==
    <<Ev("pack", n, "file", "open", "none")>>
    \o [i \in 1..nwrites |-> Ev("pack", n, "file", "data", "none")]
    \o <<Ev("pack", n, "file", "close", "none")>>

\* a policy that gives up the content of a regular file on a warning too
streamsAfter_okOnly(res) == res = "OK"

\* main.cpp:111-121: the results of the header commit of a regular file
\* after which addFile goes on to the content
streamsAfter(res) == res \in {"OK", "WARN"}

\* main.cpp:77-138: the calls one addFile makes, in order; a write that
\* fails is the last one
addFileEvents(n, kind, nblocks, ch) ==
    IF ch.pre # "ok" THEN <<>>
    ELSE IF kind \in {"symlink", "dir"} THEN <<Ev("pack", n, kind, "header", ch.res)>>
    ELSE IF kind = "file"
    THEN <<Ev("pack", n, kind, "header", ch.res)>>
         \o (IF ~streamsAfter(ch.res) \/ ~ch.canOpen THEN <<>>
             ELSE streamEvents(n, IF ch.failAt > 0 THEN ch.failAt ELSE nblocks))
    ELSE <<>>

\* main.cpp:77-138.  Returns what addFile returned ("exception" when a
\* filesystem call threw) and the write session afterwards.
addFile(w, d, sess, baseDir, path, ch) ==
    CHOOSE result \in {
    LET blank == [path |-> pathname, kind |-> "none",
                  mode |-> 0, size |-> 0, target |-> <<>>, blocks |-> <<>>]
    IN  IF ch.pre = "noentry" THEN [ret |-> "false", sess |-> sess]
        ELSE IF ch.pre = "throw" THEN [ret |-> "exception", sess |-> sess]
        ELSE IF SymlinkStatusKind(w, d, path) = "symlink"
        THEN LET e == [blank EXCEPT !.kind = "symlink", !.mode = 511,
                                    !.target = sanitizePathForArchive(w, node.target)]
             IN  [ret |-> IF ch.res # "OK" THEN "false" ELSE "true",
                  sess |-> WriteHeader(sess, e, ch.res, ch.written)]
        ELSE IF StatusKind(w, d, path) = "dir"
        THEN LET e == [blank EXCEPT !.kind = "dir", !.mode = permsToMode(node.perms)]
             IN  [ret |-> IF ch.res # "OK" THEN "false" ELSE "true",
                  sess |-> WriteHeader(sess, e, ch.res, ch.written)]
        ELSE IF StatusKind(w, d, path) = "file"
        THEN LET e == [blank EXCEPT !.kind = "file", !.mode = permsToMode(node.perms),
                                    !.size = Len(node.content)]
                 s1 == WriteHeader(sess, e, ch.res, ch.written)
                 bl == Blocks(node.content)
             IN  IF ~streamsAfter(ch.res) THEN [ret |-> "false", sess |-> s1]
                 ELSE IF ~ch.canOpen THEN [ret |-> "false", sess |-> s1]
                 ELSE IF ch.failAt > 0
                 THEN [ret |-> "false",
                       sess |-> IF ch.written
                                THEN WriteData(s1, SubSeq(bl, 1, ch.failAt - 1)) ELSE s1]
                 ELSE [ret |-> "true",
                       sess |-> IF ch.written THEN WriteData(s1, bl) ELSE s1]
        ELSE [ret |-> "true", sess |-> sess]
    : pathname \in {sanitizePathForArchive(w, relPath) : relPath \in {relative(w, d, path, baseDir)}},
      node \in {d[LStat(w, d, path).path]} } : TRUE

(***************************************************************************)
(* pack                                                                    *)
(***************************************************************************)
Orderings(X) ==
    {f \in [1..Cardinality(X) -> X] : \A i, j \in 1..Cardinality(X) : f[i] = f[j] => i = j}

\* a directory read that finds no entries
Listings_none(w, d, path) == {<<>>}

\* the entries of the directory that path names, in an order readdir may give
Listings(w, d, path) ==
    LET dir == Stat(w, d, path).path
        names == {p[Len(p)] : p \in ChildrenOf(d, dir)}
    IN  {[i \in 1..Len(o) |-> Append(path, o[i])] : o \in Orderings(names)}

\* recursive_directory_iterator: leave the current entry
RECURSIVE Advance(_)
Advance(st) ==
    IF st = <<>> THEN <<>>
    ELSE LET top == st[Len(st)]
         IN  IF Len(top) > 1 THEN [st EXCEPT ![Len(st)] = Tail(top)]
             ELSE Advance(SubSeq(st, 1, Len(st) - 1))

Current(st) == Head(st[Len(st)])

\* a deleter that leaves the session as it is
ArchiveWriteDeleter_leaking(sess) == sess

\* the session deleter (main.cpp:17-24) runs when packDirectory is left
ArchiveWriteDeleter(sess) ==
    IF sess.state = "none" THEN sess ELSE [sess EXCEPT !.state = "closed"]

\* a packDirectory that reports the failure of an entry
packDirectory_return_escalating(results) ==
    IF \E i \in 1..Len(results) : results[i].ret # "true" THEN "failure" ELSE "success"

\* main.cpp:171: the value packDirectory returns after the loop
packDirectory_return(results) == "success"

\* main.cpp:141-155: create and open the session, start the walk
packDirectory_open ==
    /\ pc = "pack_open"
    /\ \E out \in {"ok", "nonew", "noopen", "noiter"}, unwound \in BOOLEAN :
          /\ out # "ok" => faults < MaxFaults
          /\ out # "noiter" => unwound
          /\ faults' = faults + B2N(out # "ok")
          /\ \E l \in Listings(win, disk, srcDir) :
                /\ out # "ok" => l = CHOOSE x \in Listings(win, disk, srcDir) : TRUE
                /\ it' = IF out = "ok" /\ l # <<>> THEN <<l>> ELSE <<>>
          /\ yielded' = IF it' = <<>> THEN <<>> ELSE <<Current(it')>>
          /\ a' = CASE out = "nonew" -> NoSession
                    [] out = "noopen" -> ArchiveWriteDeleter([NoSession EXCEPT !.state = "open"])
                    [] out = "noiter" -> IF unwound THEN ArchiveWriteDeleter(OpenSession)
                                         ELSE OpenSession
                    [] OTHER -> OpenSession
          /\ packResult' = CASE out \in {"nonew", "noopen"} -> "failure"
                             [] out = "noiter" -> "exception"
                             [] OTHER -> "none"
          /\ pc' = CASE out \in {"nonew", "noopen"} -> "pack_done"
                     [] out = "noiter" -> "pack_aborted"
                     [] it' = <<>> -> "pack_end"
                     [] OTHER -> "pack_body"
    /\ UNCHANGED <<normVars, events, win, disk, attempted, addResults, mainVars, unpackVars>>

\* main.cpp:156-169: the loop body, addFile under try/catch
packDirectory_body ==
    /\ pc = "pack_body"
    /\ \E path \in {Current(it)} :
          \E kind \in {IF SymlinkStatusKind(win, disk, path) = "symlink"
                        THEN "symlink" ELSE StatusKind(win, disk, path)},
             node \in {disk[LStat(win, disk, path).path]}, ch \in AddChoice :
             /\ Feasible(a, kind, node.content, ch)
             /\ faults + FaultsOf(a, ch) <= MaxFaults
             /\ faults' = faults + FaultsOf(a, ch)
             /\ \E res \in {addFile(win, disk, a, srcDir, path, ch)} :
                    /\ a' = res.sess
                    /\ addResults' = Append(addResults,
                           [ret |-> res.ret, n |-> Len(res.sess.entries),
                            res |-> IF res.ret = "exception" \/ ch.pre # "ok"
                                    THEN "none" ELSE ch.res])
             /\ attempted' = Append(attempted, path)
             /\ events' = events \o addFileEvents(Len(attempted) + 1, kind,
                                                  Len(Blocks(node.content)), ch)
    /\ pc' = "pack_incr"
    /\ UNCHANGED <<normVars, win, disk, it, yielded, packResult, mainVars, unpackVars>>

\* main.cpp:154-155: operator++ of the iterator; it descends into the
\* current entry when that is a directory or a symlink to one, and throws
\* when the directory cannot be opened
packDirectory_incr ==
    /\ pc = "pack_incr"
    /\ \E path \in {Current(it)} :
          \E isDir \in {StatusKind(win, disk, path) = "dir"}, ok, unwound \in BOOLEAN :
             /\ ~ok => isDir /\ faults < MaxFaults
             /\ ok => unwound
             /\ faults' = faults + B2N(~ok)
             /\ IF ~ok
                THEN /\ it' = <<>>
                     /\ yielded' = yielded
                     /\ packResult' = "exception"
                     /\ a' = IF unwound THEN ArchiveWriteDeleter(a) ELSE a
                     /\ pc' = "pack_aborted"
                ELSE /\ \E l \in (IF isDir THEN Listings(win, disk, path) ELSE {<<>>}) :
                          it' = IF l # <<>> THEN Append(it, l) ELSE Advance(it)
                     /\ yielded' = IF it' = <<>> THEN yielded
                                   ELSE Append(yielded, Current(it'))
                     /\ UNCHANGED <<packResult, a>>
                     /\ pc' = IF it' = <<>> THEN "pack_end" ELSE "pack_body"
    /\ UNCHANGED <<normVars, events, win, disk, attempted, addResults, mainVars, unpackVars>>

\* main.cpp:171 and the deleter of the session
packDirectory_end ==
    /\ pc = "pack_end"
    /\ packResult' = packDirectory_return(addResults)
    /\ a' = ArchiveWriteDeleter(a)
    /\ pc' = "pack_done"
    /\ UNCHANGED <<normVars, events, win, disk, faults, it, yielded, attempted, addResults,
                   mainVars, unpackVars>>

(***************************************************************************)
(* Source trees                                                            *)
(***************************************************************************)
Absent == [kind |-> "absent", perms |-> 0, content |-> <<>>, target |-> <<>>]

Contents == {<<>>, <<1, 2>>}
\* 0644, and 04755 with the set-user-id bit
FilePerms == {420, 2541}
\* 0755
DirPerms == {493}
\* link targets as stored: a sibling, a nested file, a missing name, a
\* directory outside the tree, a file reached through the parent
Targets == {<<"a">>, <<"a", "/", "c">>, <<"m">>, <<"/", "e">>, <<".", ".", "/", "b">>}

NodeOpts ==
    {Absent} \cup {FileNode(p, c) : p \in FilePerms, c \in Contents}
    \cup {DirNode(p) : p \in DirPerms} \cup {LinkNode(t) : t \in Targets}

\* the places of the source tree that may hold an object
Places == {<<S, A>>, <<S, A, C>>, <<S, B>>}

\* what is on the disk besides the source tree
BaseDisk ==
    (<<S>> :> DirNode(493)) @@ (<<D>> :> DirNode(493)) @@ (<<E>> :> DirNode(493))
    @@ (<<E, C>> :> FileNode(420, <<3>>))

DiskOf(t) ==
    LET present == {p \in DOMAIN t : t[p] # Absent}
    IN  [p \in present \cup DOMAIN BaseDisk |->
            IF p \in present THEN t[p] ELSE BaseDisk[p]]

WellFormed(w, d) ==
    /\ \A p \in DOMAIN d : Parent(p) = <<>> \/ (Parent(p) \in DOMAIN d /\ d[Parent(p)].kind = "dir")
    /\ \A p \in DOMAIN d : Stat(w, d, p).st # "loop"
    \* no symbolic link leads to a directory that contains it
    /\ \A p \in DOMAIN d :
          d[p].kind = "symlink" /\ Stat(w, d, p).st = "ok"
              => ~IsPrefix(Stat(w, d, p).path, Parent(p))

Trees(w) == {d \in {DiskOf(t) : t \in [Places -> NodeOpts]} : WellFormed(w, d)}

\* 022 and 077
StartUmasks == {18, 63}

\* the read session of unpack: created and opened tell how far
\* unpackArchive got, pos counts the headers read
NoReader == [state |-> "none", opened |-> FALSE, pos |-> 0]

NoEntry == [hdr |-> "none", path |-> <<>>, kind |-> "none", mode |-> 0, size |-> 0,
            target |-> <<>>, body |-> <<>>]

(***************************************************************************)
(* unpack                                                                  *)
(***************************************************************************)
\* mode bits that survive the process umask
ApplyUmask(mode, mask) == SumSet({b \in PermBits : BitSet(mode, b) /\ ~BitSet(mask, b)})

\* fs::create_directories(p, ec): every missing directory on the way is
\* made; nothing is made when an object that is no directory is in the way
RECURSIVE MkdirP(_, _, _, _)
MkdirP(w, d, comps, mask) ==
    LET st == Stat(w, d, comps)
    IN  IF st.st = "ok"
        THEN [ok |-> KindAt(d, st.path) = "dir", disk |-> d]
        ELSE IF st.st # "missing" THEN [ok |-> FALSE, disk |-> d]
        ELSE LET up == MkdirP(w, d, Parent(st.path), mask)
             IN  IF ~up.ok THEN up
                 ELSE [ok |-> TRUE,
                       disk |-> (st.path :> DirNode(ApplyUmask(511, mask))) @@ up.disk]

\* where on the disk the object named by the path string is created
Loc(w, d, pathStr) ==
    LET comps == Components(w, pathStr)
        last == IF comps = <<>> THEN Dot ELSE comps[Len(comps)]
        whole == Stat(w, d, comps)
        par == Stat(w, d, Parent(comps))
    IN  IF last \in {Dot, DotDot}
        THEN [ok |-> whole.st = "ok", path |-> whole.path, isdir |-> TRUE]
        ELSE [ok |-> par.st = "ok" /\ KindAt(d, par.path) = "dir",
              path |-> Append(par.path, last), isdir |-> FALSE]

Remove(d, p) == [q \in DOMAIN d \ {p} |-> d[q]]

\* archive_write_header on the disk-write session (main.cpp:223), with the
\* options of main.cpp:182-191: missing parents are made, an object in the
\* way is unlinked, a directory in the way of a directory is kept
DiskHeader(w, d, pathStr, e, mask) ==
    LET mk == MkdirP(w, d, Parent(Components(w, pathStr)), mask)
        d1 == IF Components(w, pathStr) = <<>> THEN d ELSE mk.disk
        loc == Loc(w, d1, pathStr)
        p == loc.path
        node == CASE e.kind = "dir" -> DirNode(ApplyUmask(e.mode, mask))
                  [] e.kind = "symlink" -> LinkNode(e.target)
                  [] OTHER -> FileNode(ApplyUmask(e.mode, mask), <<>>)
        fail == [res |-> "FAILED", disk |-> d1]
    IN  IF ~loc.ok THEN fail
        ELSE IF loc.isdir \/ p = <<>>
        THEN (IF e.kind = "dir" THEN [res |-> "OK", disk |-> d1] ELSE fail)
        ELSE IF p \notin DOMAIN d1
        THEN [res |-> "OK", disk |-> (p :> node) @@ d1]
        ELSE IF e.kind = "dir" /\ StatusKind(w, d1, p) = "dir"
        THEN [res |-> "OK",
              disk |-> IF d1[p].kind = "dir" THEN [d1 EXCEPT ![p].perms = node.perms]
                       ELSE d1]
        ELSE IF d1[p].kind = "dir" /\ ChildrenOf(d1, p) # {}
        THEN fail
        ELSE [res |-> "OK", disk |-> (p :> node) @@ Remove(d1, p)]

\* archive_write_data_block for every block of the body (main.cpp:236-238)
DiskBody(w, d, pathStr, e) ==
    LET loc == Loc(w, d, pathStr)
    IN  IF loc.ok /\ loc.path \in DOMAIN d /\ d[loc.path].kind = "file"
        THEN [d EXCEPT ![loc.path].content = e.body]
        ELSE d

\* main.cpp:204-212: the destination path computed for an entry
fullPathOf(w, relPath) == PathAppend(w, destDir(w), restoreStrip(w, relPath))

\* the deleter of the read session (main.cpp:26-33)
ArchiveReadDeleter(sess) ==
    IF sess.state = "none" THEN sess ELSE [sess EXCEPT !.state = "closed"]

\* the deleter of the disk-write session (main.cpp:35-42); the session is
\* "none", "open", "fatal" after a FATAL result, or "closed"
ArchiveDiskDeleter(st) == IF st = "none" THEN "none" ELSE "closed"

\* a test that lets every result but FATAL through to the body
commitFailed_fatalOnly(res) == res = "FATAL"

\* main.cpp:225: the test of the result of the header commit
commitFailed(res) == res # "OK"

\* a restore that is skipped when the header commit failed
umaskAfterCommit_onSuccessOnly(res, saved, current) == IF res = "OK" THEN saved ELSE current

\* main.cpp:224: the umask after the header commit
umaskAfterCommit(res, saved, current) == saved

\* an unpackArchive that reports an entry that was not restored
unpackArchive_return_escalating(outs) ==
    IF \E k \in 1..Len(outs) : outs[k].what # "restored" THEN "failure" ELSE "success"

\* main.cpp:250: the value unpackArchive returns after the loop
unpackArchive_return(outs) == "success"

\* main.cpp:202: whether the loop goes on after archive_read_next_header
\* returned for a header of this state
loopContinues(hdr) == hdr = "ok"

LastOutcome(what) == Append(outcomes, [idx |-> rd.pos, what |-> what])

\* main.cpp:175-199: create both sessions, open the container
unpackArchive_open ==
    /\ pc = "unpack_open"
    /\ \E out \in {"ok", "noread", "nodisk", "noopen"} :
          /\ out # "ok" => faults < MaxFaults
          /\ faults' = faults + B2N(out # "ok")
          /\ rd' = CASE out = "noread" -> ArchiveReadDeleter(NoReader)
                     [] out = "nodisk" -> ArchiveReadDeleter([NoReader EXCEPT !.state = "open"])
                     [] out = "noopen" -> ArchiveReadDeleter([NoReader EXCEPT !.state = "open"])
                     [] OTHER -> [state |-> "open", opened |-> TRUE, pos |-> 0]
          /\ ext' = CASE out = "nodisk" -> ArchiveDiskDeleter("none")
                      [] out = "ok" -> "open"
                      [] OTHER -> ArchiveDiskDeleter("open")
          /\ unpackResult' = IF out = "ok" THEN "none" ELSE "failure"
          /\ pc' = IF out = "ok" THEN "unpack_next" ELSE "unpack_done"
    /\ UNCHANGED <<normVars, events, win, disk, mainVars, packVars, archive, entry, r, umask,
                   old_umask, handed, outcomes>>

\* main.cpp:202: archive_read_next_header and the loop condition
unpackArchive_next ==
    /\ pc = "unpack_next"
    /\ IF rd.pos = Len(archive)
       THEN /\ pc' = "unpack_end"
            /\ UNCHANGED <<rd, entry, events>>
       ELSE /\ rd' = [rd EXCEPT !.pos = @ + 1]
            /\ entry' = archive[rd.pos + 1]
            /\ events' = Append(events, Ev("unpack", rd.pos + 1, archive[rd.pos + 1].kind,
                                           "read_header", archive[rd.pos + 1].hdr))
            /\ pc' = IF loopContinues(archive[rd.pos + 1].hdr)
                     THEN "unpack_path" ELSE "unpack_end"
    /\ UNCHANGED <<normVars, win, disk, faults, mainVars, packVars, archive, ext, r, umask,
                   old_umask, handed, outcomes, unpackResult>>

\* main.cpp:204-222: destination path, parent directories, umask(0); an
\* exception thrown on the way is caught at main.cpp:244; the error code of
\* fs::create_directories is looked at nowhere
unpackArchive_path ==
    /\ pc = "unpack_path"
    /\ \E out \in {"ok", "throw", "nomkdir"} :
          /\ out # "ok" => faults < MaxFaults
          /\ faults' = faults + B2N(out # "ok")
          /\ IF out = "throw"
             THEN /\ outcomes' = LastOutcome("exception")
                  /\ pc' = "unpack_next"
                  /\ UNCHANGED <<disk, entry, umask, old_umask, handed>>
             ELSE LET fullPath == fullPathOf(win, entry.path)
                      mk == MkdirP(win, disk, Parent(Components(win, fullPath)), umask)
                  IN  /\ disk' = IF out = "ok" /\ Components(win, fullPath) # <<>>
                                 THEN mk.disk ELSE disk
                      /\ entry' = [entry EXCEPT !.path = sanitizePathForArchive(win, fullPath)]
                      /\ handed' = Append(handed, sanitizePathForArchive(win, fullPath))
                      /\ old_umask' = umask
                      /\ umask' = 0
                      /\ pc' = "unpack_commit"
                      /\ outcomes' = IF out = "nomkdir"
                                        \/ (Components(win, fullPath) # <<>> /\ ~mk.ok)
                                     THEN LastOutcome("mkdir_failed") ELSE outcomes
    /\ UNCHANGED <<normVars, events, win, mainVars, packVars, archive, rd, ext, r, unpackResult>>

\* main.cpp:223: the header commit to disk
unpackArchive_commit ==
    /\ pc = "unpack_commit"
    /\ \E res \in {"OK", "WARN", "FAILED", "FATAL"} :
          /\ ext = "fatal" => res = "FATAL"
          /\ res # "OK" /\ ext # "fatal" => faults < MaxFaults
          /\ faults' = faults + B2N(res # "OK" /\ ext # "fatal")
          /\ \E h \in {DiskHeader(win, disk, entry.path, entry, umask)} :
                 /\ r' = IF res = "OK" THEN h.res ELSE res
                 /\ disk' = IF res = "OK" THEN h.disk ELSE disk
                 /\ events' = Append(events, Ev("unpack", rd.pos, entry.kind, "header",
                                                IF res = "OK" THEN h.res ELSE res))
          /\ ext' = IF res = "FATAL" THEN "fatal" ELSE ext
    /\ pc' = "unpack_restore"
    /\ UNCHANGED <<normVars, win, mainVars, packVars, archive, rd, entry, umask,
                   old_umask, handed, outcomes, unpackResult>>

\* main.cpp:224-230: restore the umask, skip the entry when the commit failed
unpackArchive_restore ==
    /\ pc = "unpack_restore"
    /\ umask' = umaskAfterCommit(r, old_umask, umask)
    /\ IF commitFailed(r)
       THEN /\ outcomes' = LastOutcome("commit_failed")
            /\ pc' = "unpack_next"
       ELSE /\ pc' = "unpack_body"
            /\ UNCHANGED outcomes
    /\ UNCHANGED <<normVars, events, win, disk, faults, mainVars, packVars, archive, rd, ext, entry, r,
                   old_umask, handed, unpackResult>>

\* main.cpp:232-242: the calls on the disk-write session after a header
\* commit that returned ARCHIVE_OK
bodyEvents(n, kind, nblocks) ==
    (IF kind = "file" THEN [i \in 1..nblocks |-> Ev("unpack", n, kind, "data", "none")]
     ELSE <<>>)
    \o <<Ev("unpack", n, kind, "finish", "none")>>

\* main.cpp:232-242: stream the body of a regular file, finish the entry
unpackArchive_body ==
    /\ pc = "unpack_body"
    /\ disk' = IF entry.kind = "file" THEN DiskBody(win, disk, entry.path, entry) ELSE disk
    /\ outcomes' = LastOutcome("restored")
    /\ events' = events \o bodyEvents(rd.pos, entry.kind, Len(Blocks(entry.body)))
    /\ pc' = "unpack_next"
    /\ UNCHANGED <<normVars, win, faults, mainVars, packVars, archive, rd, ext, entry, r, umask,
                   old_umask, handed, unpackResult>>

\* main.cpp:250 and the deleters of both sessions (main.cpp:26-42)
unpackArchive_end ==
    /\ pc = "unpack_end"
    /\ unpackResult' = unpackArchive_return(outcomes)
    /\ rd' = ArchiveReadDeleter(rd)
    /\ ext' = ArchiveDiskDeleter(ext)
    /\ pc' = "unpack_done"
    /\ UNCHANGED <<normVars, events, win, disk, faults, mainVars, packVars, archive, entry, r, umask,
                   old_umask, handed, outcomes>>

(***************************************************************************)
(* Containers given to unpack                                              *)
(***************************************************************************)
Hdr(path, kind, mode, target, body) ==
    [hdr |-> "ok", path |-> path, kind |-> kind, mode |-> mode, size |-> Len(body),
     target |-> target, body |-> body]

\* a header the codec cannot read
BadHdr == [NoEntry EXCEPT !.hdr = "bad"]

Items == {Hdr(<<"a">>, "dir", 493, <<>>, <<>>),
          Hdr(<<"a", "/", "c">>, "file", 420, <<>>, <<1, 2>>),
          Hdr(<<"b">>, "file", 384, <<>>, <<>>),
          Hdr(<<"b">>, "symlink", 511, <<"a">>, <<>>),
          BadHdr}

\* most headers in a container given to unpack
MaxEntries == 3

SeqsUpTo(X, n) == UNION {[1..k -> X] : k \in 0..n}

InitProgram ==
    /\ exitCode = -1
    /\ a = NoSession /\ it = <<>> /\ yielded = <<>> /\ attempted = <<>>
    /\ addResults = <<>> /\ packResult = "none"
    /\ rd = NoReader /\ ext = "none" /\ entry = NoEntry /\ r = "none"
    /\ umask = startUmask
    /\ old_umask = 0 /\ handed = <<>> /\ outcomes = <<>>
    /\ unpackResult = "none"
    /\ events = <<>>

InitIdle == InitProgram /\ pathText = <<>> /\ normCalls = <<>>

\* pack of every source tree, with environment failures
InitPack ==
    /\ win \in BOOLEAN
    /\ disk \in Trees(win)
    /\ pc = "pack_open"
    /\ argc = 4 /\ cmd = "pack" /\ dst = destDir(win)
    /\ startUmask = CHOOSE m \in StartUmasks : TRUE
    /\ archive = <<>>
    /\ faults = 0
    /\ InitIdle

NextPack ==
    \/ packDirectory_open
    \/ packDirectory_body
    \/ packDirectory_incr
    \/ packDirectory_end

SpecPack == InitPack /\ [][NextPack]_vars

\* unpack of every container of up to MaxEntries headers, with environment
\* failures, into an empty destination
InitUnpack ==
    /\ win \in BOOLEAN
    /\ disk = BaseDisk
    /\ pc = "unpack_open"
    /\ argc = 4 /\ cmd = "unpack" /\ dst = destDir(win)
    /\ startUmask \in StartUmasks
    /\ archive \in SeqsUpTo(Items, MaxEntries)
    /\ faults = 0
    /\ InitIdle

NextUnpack ==
    \/ unpackArchive_open
    \/ unpackArchive_next
    \/ unpackArchive_path
    \/ unpackArchive_commit
    \/ unpackArchive_restore
    \/ unpackArchive_body
    \/ unpackArchive_end

SpecUnpack == InitUnpack /\ [][NextUnpack]_vars

\* the characters entry paths are made of
PathChars == {"/", "\\", ":", ".", "C", "a"}

\* longest entry path, not counting an extended-length marker in front
MaxPathLen == 4

PathInputs ==
    {pre \o s : pre \in {<<>>, ELMarker}, s \in SeqsUpTo(PathChars, MaxPathLen)}

\* unpack of a container with one entry whose path is any string
InitContain ==
    /\ win \in BOOLEAN
    /\ disk = BaseDisk
    /\ pc = "unpack_open"
    /\ argc = 4 /\ cmd = "unpack" /\ dst = destDir(win)
    /\ startUmask = CHOOSE m \in StartUmasks : TRUE
    /\ archive \in {<<Hdr(p, "file", 420, <<>>, <<1>>)>> : p \in PathInputs}
    /\ faults = 0
    /\ InitIdle

SpecContain == InitContain /\ [][NextUnpack]_vars

\* the body the codec gives back for an entry pack wrote: the bytes written
\* after its header, cut or padded with zero bytes to the size in the header
RECURSIVE Zeros(_)
Zeros(n) == IF n <= 0 THEN <<>> ELSE <<0>> \o Zeros(n - 1)

BodyOf(e) ==
    LET bytes == Flatten(e.blocks)
    IN  IF e.kind # "file" THEN <<>>
        ELSE IF Len(bytes) >= e.size THEN SubSeq(bytes, 1, e.size)
        ELSE bytes \o Zeros(e.size - Len(bytes))

ContainerOf(entries) ==
    [i \in 1..Len(entries) |->
        [hdr |-> "ok", path |-> entries[i].path, kind |-> entries[i].kind,
         mode |-> entries[i].mode, size |-> entries[i].size,
         target |-> entries[i].target, body |-> BodyOf(entries[i])]]

\* run.sh:6-7: pack the tree, then unpack the container pack wrote
run_sh ==
    /\ pc = "pack_done"
    /\ packResult = "success"
    /\ cmd = "roundtrip"
    /\ archive' = ContainerOf(a.entries)
    /\ pc' = "unpack_open"
    /\ UNCHANGED <<normVars, events, win, disk, faults, mainVars, packVars, rd, ext, entry, r, umask,
                   old_umask, handed, outcomes, unpackResult>>

\* pack of every source tree and unpack of the result into an empty
\* destination, the environment never failing
InitRoundTrip ==
    /\ win \in BOOLEAN
    /\ disk \in Trees(win)
    /\ pc = "pack_open"
    /\ argc = 4 /\ cmd = "roundtrip" /\ dst = destDir(win)
    /\ startUmask \in StartUmasks
    /\ archive = <<>>
    /\ faults = MaxFaults
    /\ InitIdle

NextRoundTrip ==
    \/ NextPack
    \/ run_sh
    \/ NextUnpack

SpecRoundTrip == InitRoundTrip /\ [][NextRoundTrip]_vars

(***************************************************************************)
(* main                                                                    *)
(***************************************************************************)
\* main.cpp:281 and :294: the exit status for the value an operation returned
exitStatus(result) == IF result = "success" THEN 0 ELSE 1

\* main.cpp:298: the exit status for a subcommand that is not known
unknownCommandStatus == 2

\* the directory the process runs in: the destination root
current_path(w) == destDir(w)

\* main.cpp:277: the outcomes of fs::absolute(p); on the empty path libstdc++
\* throws filesystem_error (invalid argument), libc++ returns
\* current_path() / "", which names the current directory
absolute(w, p) ==
    IF p = <<>> THEN {[ok |-> FALSE, path |-> p], [ok |-> TRUE, path |-> current_path(w)]}
    ELSE IF IsAbsolute(w, p) THEN {[ok |-> TRUE, path |-> p]}
    ELSE {[ok |-> TRUE, path |-> PathAppend(w, current_path(w), p)]}

\* the exit status of a process ended by abort (SIGABRT), as the shell
\* reports it
abortStatus == 134

\* main.cpp:262-298 up to the call of packDirectory or unpackArchive; an
\* exception of fs::absolute is caught nowhere and ends the process by abort
main ==
    /\ pc = "main"
    /\ IF argc # 4
       THEN /\ exitCode' = 1
            /\ pc' = "exit"
            /\ UNCHANGED <<disk, faults, dst>>
       ELSE \E abs \in absolute(win, dst) :
          IF ~abs.ok
          THEN /\ exitCode' = abortStatus
               /\ pc' = "exit"
               /\ UNCHANGED <<disk, faults, dst>>
          ELSE
            /\ dst' = abs.path
            /\ IF cmd = "pack"
               THEN /\ pc' = "pack_open"
                    /\ UNCHANGED <<disk, faults, exitCode>>
               ELSE IF cmd = "unpack"
               THEN IF Stat(win, disk, Components(win, abs.path)).st = "ok"
                    THEN /\ pc' = "unpack_open"
                         /\ UNCHANGED <<disk, faults, exitCode>>
                    ELSE \E ok \in BOOLEAN :
                            /\ ~ok => faults < MaxFaults
                            /\ faults' = faults + B2N(~ok)
                            /\ disk' = IF ok
                                       THEN MkdirP(win, disk, Components(win, abs.path), umask).disk
                                       ELSE disk
                            /\ exitCode' = IF ok THEN exitCode ELSE 1
                            /\ pc' = IF ok THEN "unpack_open" ELSE "exit"
               ELSE /\ exitCode' = unknownCommandStatus
                    /\ pc' = "exit"
                    /\ UNCHANGED <<disk, faults>>
    /\ UNCHANGED <<normVars, events, win, argc, cmd, startUmask, packVars, unpackVars>>

\* main.cpp:281: packDirectory returned
main_pack ==
    /\ pc = "pack_done"
    /\ cmd = "pack"
    /\ exitCode' = exitStatus(packResult)
    /\ pc' = "exit"
    /\ UNCHANGED <<normVars, events, win, disk, faults, argc, cmd, dst, startUmask, packVars, unpackVars>>

\* main.cpp:294: unpackArchive returned
main_unpack ==
    /\ pc = "unpack_done"
    /\ cmd = "unpack"
    /\ exitCode' = exitStatus(unpackResult)
    /\ pc' = "exit"
    /\ UNCHANGED <<normVars, events, win, disk, faults, argc, cmd, dst, startUmask, packVars, unpackVars>>

\* an exception nothing catches leaves packDirectory and main: the process
\* is ended by abort (SIGABRT, status 134)
main_terminate ==
    /\ pc = "pack_aborted"
    /\ exitCode' = abortStatus
    /\ pc' = "exit"
    /\ UNCHANGED <<normVars, events, win, disk, faults, argc, cmd, dst, startUmask, packVars, unpackVars>>

\* the argument counts and subcommands tried
ArgCounts == {1, 2, 3, 4, 5}
Commands == {"pack", "unpack", "list"}

\* a source tree and a container for the runs of main
MainTree ==
    (<<S, A>> :> DirNode(493)) @@ (<<S, A, C>> :> FileNode(420, <<1, 2>>))
    @@ (<<S>> :> DirNode(493)) @@ (<<E>> :> DirNode(493))
MainArchive ==
    << Hdr(<<"a">>, "dir", 493, <<>>, <<>>), Hdr(<<"a", "/", "c">>, "file", 420, <<>>, <<1, 2>>) >>

\* the program run from main with every argument count and subcommand, the
\* destination directory present or absent
InitMain ==
    /\ win \in BOOLEAN
    /\ disk \in {MainTree, (<<D>> :> DirNode(493)) @@ MainTree}
    /\ pc = "main"
    /\ argc \in ArgCounts
    /\ cmd \in (IF argc = 4 THEN Commands ELSE {"none"})
    /\ dst \in (IF argc = 4 /\ destComps \in DOMAIN disk THEN {<<>>, <<"d">>, destDir(win)}
                ELSE IF argc = 4 THEN {destDir(win)} ELSE {<<>>})
    /\ startUmask \in StartUmasks
    /\ archive = MainArchive
    /\ faults = 0
    /\ InitIdle

NextMain ==
    \/ main
    \/ main_pack
    \/ main_unpack
    \/ main_terminate
    \/ NextPack
    \/ NextUnpack

SpecMain == InitMain /\ [][NextMain]_vars

\* C7: any argument count but four exits 1 without running an operation;
\* with four arguments an unknown subcommand exits 2, pack and unpack exit 0
\* when the operation returned success and 1 when it returned failure, and
\* unpack exits 1 without unpacking when the destination cannot be created.
C7_ExitCodes ==
    pc = "exit" =>
        /\ argc # 4 => exitCode = 1 /\ packResult = "none" /\ unpackResult = "none"
        /\ argc = 4 /\ cmd \notin {"pack", "unpack"} =>
              exitCode = 2 /\ packResult = "none" /\ unpackResult = "none"
        /\ argc = 4 /\ cmd = "pack" =>
              /\ packResult = "success" => exitCode = 0
              /\ packResult = "failure" => exitCode = 1
              /\ unpackResult = "none"
        /\ argc = 4 /\ cmd = "unpack" =>
              /\ unpackResult = "success" => exitCode = 0
              /\ unpackResult = "failure" => exitCode = 1
              /\ destComps \notin DOMAIN disk =>
                    exitCode = 1 /\ unpackResult = "none" /\ rd = NoReader
              /\ packResult = "none"

(***************************************************************************)
(* Properties of pack                                                      *)
(***************************************************************************)
\* some addFile call did not return true
SomeEntryFailed == \E i \in 1..Len(addResults) : addResults[i].ret # "true"

\* C4: pack returns failure only when the write session could not be created
\* or the container could not be opened; once the container is open, every
\* item the walker yields is handed to addFile whatever the earlier calls
\* returned, and when the walk is over pack returns success.
C4_PackFailsOnlyOnOpen ==
    /\ packResult = "failure" => ~a.opened
    /\ pc = "pack_incr" => attempted = yielded
    /\ pc = "pack_body" => attempted = SubSeq(yielded, 1, Len(yielded) - 1)
    /\ pc = "pack_done" /\ a.opened =>
          /\ packResult = "success"
          /\ it = <<>>
          /\ attempted = yielded

\* a pack that returned after an entry failed and went on to a later item
C4_Witness ==
    /\ pc = "pack_done"
    /\ packResult = "success"
    /\ \E i \in 1..Len(addResults) : addResults[i].ret # "true" /\ i < Len(addResults)

\* C5: once a header commit has returned FATAL, nothing more is written to
\* the container and pack returns failure.
C5_FatalAbortsPack ==
    \A i \in 1..Len(addResults) :
        addResults[i].res = "FATAL" =>
            /\ Len(a.entries) = addResults[i].n
            /\ i = Len(addResults)
            /\ pc = "pack_done" => packResult = "failure"

\* C9: once the walk has started, an error of the filesystem at one node
\* does not abort it: pack is never left by an exception.
C9_WalkErrorSkipsNode ==
    yielded # <<>> => pc # "pack_aborted" /\ packResult # "exception"

(***************************************************************************)
(* Properties of unpack                                                    *)
(***************************************************************************)
\* the path string names a place at or below the destination root
UnderDest(w, p) ==
    /\ RootName(w, p) = RootName(w, destDir(w))
    /\ HasRootDirectory(w, p)
    /\ IsPrefix(Components(w, destDir(w)), LexicallyNormal(Components(w, p)))

\* C2: every path handed to the disk-write session lies under the
\* destination root.
C2_PathContainment ==
    \A i \in 1..Len(handed) : UnderDest(win, handed[i])

\* the indices of the headers unpack went through the loop body with
Processed == {outcomes[k].idx : k \in 1..Len(outcomes)}

\* C3: when unpack has returned from a container with one corrupt header,
\* every valid header of the container has been processed, those after the
\* corrupt one too.
C3_CorruptHeaderIsolated ==
    /\ pc = "unpack_done"
    /\ rd.opened
    /\ Cardinality({i \in 1..Len(archive) : archive[i].hdr = "bad"}) = 1
    => \A i \in 1..Len(archive) : archive[i].hdr = "ok" => i \in Processed

\* C6: unpack returns failure exactly when a session could not be created or
\* the container could not be opened; otherwise it returns success.
C6_UnpackFailsOnlyOnOpen ==
    pc = "unpack_done" =>
        /\ unpackResult \in {"success", "failure"}
        /\ unpackResult = "failure" <=> ~rd.opened

\* unpack returned success although an entry was not restored
C6_Witness ==
    /\ pc = "unpack_done"
    /\ unpackResult = "success"
    /\ \E k \in 1..Len(outcomes) : outcomes[k].what # "restored"

\* C8: the umask is zero only between umask(0) and the restore after the
\* header commit; at every other point of unpack it has its starting value.
C8_UmaskRestored ==
    /\ pc \in {"unpack_commit", "unpack_restore"} => umask = 0 /\ old_umask = startUmask
    /\ pc \in {"unpack_open", "unpack_next", "unpack_path", "unpack_body",
               "unpack_end", "unpack_done"} => umask = startUmask

\* back at the loop head after a header commit that failed
C8_Witness ==
    /\ pc = "unpack_next"
    /\ startUmask # 0
    /\ r # "OK"
    /\ \E k \in 1..Len(outcomes) : outcomes[k].what = "commit_failed"

(***************************************************************************)
(* Round trip                                                              *)
(***************************************************************************)
\* what a tree comparison sees of the tree below root: kind, content, the
\* nine mode bits and link target per relative path
TreeBelow(d, root) ==
    LET ps == {p \in DOMAIN d : IsPrefix(root, p) /\ p # root}
    IN  [q \in {Drop(p, Len(root)) : p \in ps} |->
            LET n == d[root \o q]
            IN  [kind |-> n.kind, content |-> n.content, target |-> n.target,
                 mode |-> IF n.kind = "symlink" THEN 511 ELSE permsToMode(n.perms)]]

\* C1: after pack and unpack into an empty destination, the destination
\* holds the same paths, kinds, contents, modes and link targets as the source.
C1_RoundTrip ==
    pc = "unpack_done" /\ unpackResult = "success"
        => TreeBelow(disk, destComps) = TreeBelow(disk, srcDir)

\* the path of an entry, as components
EntryComps(e) == Components(win, e.path)

\* C10: a Directory entry precedes every entry nested under it.
C10_DirectoryBeforeNested ==
    \A i, j \in 1..Len(a.entries) :
        /\ a.entries[i].kind = "dir"
        /\ IsPrefix(EntryComps(a.entries[i]), EntryComps(a.entries[j]))
        /\ EntryComps(a.entries[i]) # EntryComps(a.entries[j])
        => i < j

C12_UniquePaths ==
    /\ \A i, j \in 1..Len(a.entries) :
          i # j => a.entries[i].path # a.entries[j].path
    /\ \A i \in 1..Len(a.entries) :
          /\ a.entries[i].path # <<>>
          /\ ~IsSep(win, a.entries[i].path[1])

(***************************************************************************)
(* Termination of the walk                                                 *)
(***************************************************************************)
\* pack of every source tree, the environment never failing; the program is
\* one thread that runs on while it can take a step
InitWalk ==
    /\ win \in BOOLEAN
    /\ disk \in Trees(win)
    /\ pc = "pack_open"
    /\ argc = 4 /\ cmd = "pack" /\ dst = destDir(win)
    /\ startUmask = CHOOSE m \in StartUmasks : TRUE
    /\ archive = <<>>
    /\ faults = MaxFaults
    /\ InitIdle

SpecWalk == InitWalk /\ [][NextPack]_vars /\ WF_vars(NextPack)

\* deepest nesting of a walker item below the source directory
MaxDepth == 3

\* the objects below the source directory, each under every path that leads
\* to it through directories and symlinks to directories
WalkItems(w, d) ==
    {p \in {srcDir \o q : q \in UNION {[1..k -> {A, B, C}] : k \in 1..MaxDepth}} :
        LStat(w, d, p).st = "ok"}

NoRepeat(seq) == \A i, j \in 1..Len(seq) : seq[i] = seq[j] => i = j

C14_MkdirFailureSkipsEntry ==
    \A k \in 1..Len(outcomes) :
        outcomes[k].what = "mkdir_failed" =>
            /\ \A m \in 1..Len(outcomes) : m # k => outcomes[m].idx # outcomes[k].idx
            /\ rd.pos = outcomes[k].idx =>
                  pc \notin {"unpack_commit", "unpack_restore", "unpack_body"}

\* C15: when the header commit to disk returned anything but OK, the body
\* step is not taken for that entry and nothing but the failure is recorded
\* for it; unpack goes on, so that a container whose headers can all be read
\* has every header processed when unpack returns.
C15_CommitFailureSkipsBody ==
    /\ pc = "unpack_body" => r = "OK"
    /\ \A k, m \in 1..Len(outcomes) :
          outcomes[k].what = "commit_failed" /\ outcomes[m].idx = outcomes[k].idx
              => outcomes[m].what \in {"commit_failed", "mkdir_failed"}
    /\ pc = "unpack_done" /\ rd.opened /\ (\A i \in 1..Len(archive) : archive[i].hdr = "ok")
          => Processed = 1..Len(archive)

\* unpack returned after a header commit failed and a later entry was restored
C15_Witness ==
    /\ pc = "unpack_done"
    /\ \E k, m \in 1..Len(outcomes) :
          /\ outcomes[k].what = "commit_failed"
          /\ outcomes[m].what = "restored"
          /\ outcomes[k].idx < outcomes[m].idx

(***************************************************************************)
(* Header results of pack                                                  *)
(***************************************************************************)
\* the kind addFile takes the object for (main.cpp:91, :99, :105)
EntryKind(w, d, path) ==
    IF SymlinkStatusKind(w, d, path) = "symlink" THEN "symlink" ELSE StatusKind(w, d, path)

\* the blocks written to the session so far, per entry
BlocksOf(sess) == [i \in 1..Len(sess.entries) |-> sess.entries[i].blocks]

\* C16: in one addFile call, a header commit that returns WARN for a
\* directory or a symlink makes addFile give up the entry (it returns false
\* and writes no content); for a regular file a WARN does not stop addFile:
\* when nothing else fails it streams the whole content and returns true;
\* after a FATAL result addFile returns false and no content is written.
C16_HeaderPolicy ==
    [][pc = "pack_body" =>
        LET rec == addResults'[Len(addResults')]
            path == attempted'[Len(attempted')]
            kind == EntryKind(win, disk, path)
            n == Len(a.entries)
        IN  /\ kind \in {"dir", "symlink"} /\ rec.res = "WARN"
                  => rec.ret = "false" /\ SubSeq(BlocksOf(a'), 1, n) = BlocksOf(a)
                     /\ \A i \in (n + 1)..Len(a'.entries) : a'.entries[i].blocks = <<>>
            /\ kind = "file" /\ rec.res = "WARN" /\ faults' = faults + 1
                  => /\ rec.ret = "true"
                     /\ Len(a'.entries) = n + 1
                           => a'.entries[n + 1].blocks = Blocks(disk[LStat(win, disk, path).path].content)
            /\ rec.res = "FATAL"
                  => rec.ret = "false" /\ BlocksOf(a') = BlocksOf(a)]_vars

\* addFile returned true for a regular file whose header commit returned
\* WARN, and the content is in the container
C16_Witness ==
    /\ pc = "pack_incr"
    /\ addResults[Len(addResults)].res = "WARN"
    /\ addResults[Len(addResults)].ret = "true"
    /\ a.entries # <<>>
    /\ a.entries[Len(a.entries)].kind = "file"
    /\ a.entries[Len(a.entries)].blocks # <<>>

(***************************************************************************)
(* Symbolic links in pack                                                  *)
(***************************************************************************)
\* a link target that starts with the extended-length marker
MarkedTarget == ELMarker \o <<"m">>

LinkTrees(w) ==
    {d \in {DiskOf(t) : t \in [Places -> NodeOpts \cup {LinkNode(MarkedTarget)}]} :
        WellFormed(w, d)}

\* pack of every source tree, link targets with the marker included
InitLinks ==
    /\ win \in BOOLEAN
    /\ disk \in LinkTrees(win)
    /\ pc = "pack_open"
    /\ argc = 4 /\ cmd = "pack" /\ dst = destDir(win)
    /\ startUmask = CHOOSE m \in StartUmasks : TRUE
    /\ archive = <<>>
    /\ faults = 0
    /\ InitIdle

SpecLinks == InitLinks /\ [][NextPack]_vars

\* the object the walker handed to addFile in this step, not following a link
Handed == disk[LStat(win, disk, attempted'[Len(attempted')]).path]

\* the entry a symlink is emitted as, but for its target
SymlinkEntryShape(e) ==
    e.kind = "symlink" /\ e.mode = 511 /\ e.size = 0 /\ e.blocks = <<>>

\* a symlink makes addFile commit one header when nothing fails and the
\* session has not failed before, and no
\* symlink entry of the container ever has a size or content
SymlinkEmitted(stored(_)) ==
    /\ pc = "pack_body" /\ Handed.kind = "symlink"
          => /\ faults' = faults /\ a.state # "fatal"
                   => /\ addResults'[Len(addResults')].ret = "true"
                      /\ Len(a'.entries) = Len(a.entries) + 1
             /\ Len(a'.entries) = Len(a.entries) + 1
                   => /\ SymlinkEntryShape(a'.entries[Len(a'.entries)])
                      /\ a'.entries[Len(a'.entries)].target = stored(Handed.target)
    /\ \A i \in 1..Len(a'.entries) :
          a'.entries[i].kind = "symlink" => SymlinkEntryShape(a'.entries[i])

RawTarget(t) == t

\* the target without one leading marker on a _WIN32 build, as it is otherwise
UnmarkedTarget(t) ==
    IF win /\ Len(t) >= 4 /\ SubSeq(t, 1, 4) = ELMarker THEN SubSeq(t, 5, Len(t)) ELSE t

\* C17 as stated: every symlink handed to addFile is emitted as a Symlink
\* entry whatever its target leads to, with mode 0777, no size and no
\* content, and the stored target is the raw target of the link.
C17_SymlinkRawTarget == [][SymlinkEmitted(RawTarget)]_vars

\* C17 amended: as above, but the stored target is the raw target of the
\* link without a leading extended-length marker on a _WIN32 build
\* (main.cpp:94), and the raw target on other builds.
C17_SymlinkEntry == [][SymlinkEmitted(UnmarkedTarget)]_vars

\* a link to a directory outside the tree and a link with a marked target
\* are both in the container as symlink entries
C17_Witness ==
    /\ pc = "pack_done"
    /\ \E i, j \in 1..Len(a.entries) :
          /\ a.entries[i].kind = "symlink" /\ a.entries[i].target = <<"/", "e">>
          /\ a.entries[j].kind = "symlink" /\ win
          /\ \E p \in DOMAIN disk : disk[p].target = MarkedTarget
          /\ a.entries[j].target = <<"m">>

(***************************************************************************)
(* permsToMode on every permission value                                   *)
(***************************************************************************)
\* the values of fs::perms: every subset of perms::mask (07777), and
\* perms::unknown (0xFFFF)
AllPerms == 0..4095 \cup {65535}

\* the bits of a 16-bit mode outside the nine permission bits: sticky,
\* set-group-id, set-user-id and the file type
OtherModeBits == {512, 1024, 2048, 4096, 8192, 16384, 32768}

\* one object s/a, a regular file or a directory, with any permission value
ModeTrees ==
    {DiskOf([pl \in Places |-> IF pl = <<S, A>> THEN n ELSE Absent]) :
        n \in {FileNode(p, <<1, 2>>) : p \in AllPerms} \cup {DirNode(p) : p \in AllPerms}}

InitModes ==
    /\ win \in BOOLEAN
    /\ disk \in ModeTrees
    /\ pc = "pack_open"
    /\ argc = 4 /\ cmd = "pack" /\ dst = destDir(win)
    /\ startUmask = CHOOSE m \in StartUmasks : TRUE
    /\ archive = <<>>
    /\ faults = 0
    /\ InitIdle

SpecModes == InitModes /\ [][NextPack]_vars

\* C18: the mode permsToMode gives for the permissions of s/a lies in
\* 0..0777, each of its nine permission bits is set exactly when that bit is
\* set in the permissions, and its sticky, set-id and file-type bits are zero.
C18_PermsToMode ==
    \A i \in 1..Len(a.entries) :
        \A m \in {a.entries[i].mode}, p \in {disk[<<S, A>>].perms} :
            /\ m \in 0..511
            /\ \A b \in PermBits : BitSet(m, b) <=> BitSet(p, b)
            /\ \A b \in OtherModeBits : ~BitSet(m, b)

\* s/a has the set-id and sticky bits and owner permissions only, and its
\* entry is in the container with mode 0700
C18_Witness ==
    /\ disk[<<S, A>>].perms = 4032
    /\ Len(a.entries) = 1
    /\ a.entries[1].mode = 448

(***************************************************************************)
(* Path normalization applied repeatedly                                   *)
(***************************************************************************)
\* the pieces path strings are made of: the extended-length marker, a drive
\* designator, the two separators, a name
TextPieces == {ELMarker, <<"c", ":">>, <<"\\">>, <<"/">>, <<"x">>}

\* most pieces in one path string
MaxPieces == 3

\* most normalization calls on one path string
MaxNormCalls == 2

PathTexts == {Flatten(ps) : ps \in SeqsUpTo(TextPieces, MaxPieces)}

\* main.cpp:85, :94: the string goes through sanitizePathForArchive
sanitize_call ==
    /\ pc = "normalize"
    /\ Len(normCalls) < MaxNormCalls
    /\ pathText' = sanitizePathForArchive(win, pathText)
    /\ normCalls' = Append(normCalls, "sanitize")
    /\ UNCHANGED <<win, disk, faults, pc, events, mainVars, packVars, unpackVars>>

\* main.cpp:206-210: the string goes through the stripping of unpackArchive
strip_call ==
    /\ pc = "normalize"
    /\ Len(normCalls) < MaxNormCalls
    /\ pathText' = restoreStrip(win, pathText)
    /\ normCalls' = Append(normCalls, "strip")
    /\ UNCHANGED <<win, disk, faults, pc, events, mainVars, packVars, unpackVars>>

InitNormalize ==
    /\ win \in BOOLEAN
    /\ disk = BaseDisk
    /\ pc = "normalize"
    /\ argc = 4 /\ cmd = "pack" /\ dst = destDir(win)
    /\ startUmask = CHOOSE m \in StartUmasks : TRUE
    /\ archive = <<>>
    /\ faults = 0
    /\ InitProgram
    /\ pathText \in PathTexts
    /\ normCalls = <<>>

NextNormalize ==
    \/ sanitize_call
    \/ strip_call

SpecNormalize == InitNormalize /\ [][NextNormalize]_vars

\* C19: a normalization applied to a string that the same normalization just
\* produced returns that string: a second sanitizePathForArchive after a
\* first, and a second stripping after a first, change nothing.
C19_Idempotent ==
    [][normCalls # <<>> /\ Len(normCalls') = Len(normCalls) + 1
          /\ normCalls'[Len(normCalls')] = normCalls[Len(normCalls)]
       => pathText' = pathText]_vars

(***************************************************************************)
(* Streaming of file content                                               *)
(***************************************************************************)
\* file sizes around the multiples of the chunk size
StreamSizes == {0, 1, ChunkSize - 1, ChunkSize, ChunkSize + 1,
                2 * ChunkSize, 2 * ChunkSize + 1}

BytesOf(n) == [i \in 1..n |-> i % 256]

\* one regular file s/a of each of these sizes, alone or beside a file s/b
StreamTrees ==
    {DiskOf([pl \in Places |-> IF pl = <<S, A>> THEN FileNode(420, BytesOf(n))
                               ELSE IF pl = <<S, B>> THEN other ELSE Absent]) :
        n \in StreamSizes, other \in {Absent, FileNode(420, <<1, 2>>)}}

InitStream ==
    /\ win \in BOOLEAN
    /\ disk \in StreamTrees
    /\ pc = "pack_open"
    /\ argc = 4 /\ cmd = "pack" /\ dst = destDir(win)
    /\ startUmask = CHOOSE m \in StartUmasks : TRUE
    /\ archive = <<>>
    /\ faults = 0
    /\ InitIdle

SpecStream == InitStream /\ [][NextPack]_vars

\* C20: when addFile is handed a regular file and nothing fails, its header
\* is committed and addFile returns true; and whenever the header of a regular
\* file is committed and addFile returns true, the blocks written for it,
\* concatenated in order, are the content of the file, every block has
\* between 1 and 8192 bytes and every block but the last has 8192.
C20_BodyBlocks ==
    [][pc = "pack_body" /\ Handed.kind = "file"
       => /\ faults' = faults /\ a.state # "fatal"
                => /\ addResults'[Len(addResults')].ret = "true"
                   /\ Len(a'.entries) = Len(a.entries) + 1
          /\ Len(a'.entries) = Len(a.entries) + 1
             /\ addResults'[Len(addResults')].ret = "true"
                => \A bl \in {a'.entries[Len(a'.entries)].blocks} :
                      /\ Flatten(bl) = Handed.content
                      /\ \A i \in 1..Len(bl) : Len(bl[i]) \in 1..ChunkSize
                      /\ \A i \in 1..(Len(bl) - 1) : Len(bl[i]) = ChunkSize]_vars

\* a file of two chunks and one byte is in the container as three blocks
C20_Witness ==
    /\ pc = "pack_done"
    /\ \E i \in 1..Len(a.entries) :
          /\ Len(a.entries[i].blocks) = 3
          /\ Len(a.entries[i].blocks[3]) = 1
          /\ a.entries[i].size = 2 * ChunkSize + 1

(***************************************************************************)
(* Order of the calls of pack and unpack                                   *)
(***************************************************************************)
\* pack of every source tree, or unpack of every container, with environment
\* failures, or pack and then unpack without
InitEither == InitPack \/ InitUnpack \/ InitRoundTrip

NextEither ==
    \/ NextPack
    \/ NextUnpack
    \/ run_sh

SpecEither == InitEither /\ [][NextEither]_vars

\* two calls are made for the same entry
SameEntry(e, f) == e.side = f.side /\ e.n = f.n

\* C21: the calls are made entry by entry, none for an earlier entry after
\* one for a later entry; every body write of an entry follows the header
\* commit of that entry; once the calls for the next entry have begun, a
\* source file that pack opened has been closed after its last body write
\* and an entry whose header unpack committed with ARCHIVE_OK has been
\* finished after its last body write; no body write is made for a
\* directory or a symlink.
C21_OneEntryAtATime ==
    /\ \A i, j \in 1..Len(events) :
          i < j /\ events[i].side = events[j].side => events[i].n <= events[j].n
    /\ \A j \in 1..Len(events) :
          events[j].op = "data"
              => /\ events[j].kind = "file"
                 /\ \E i \in 1..(j - 1) :
                        SameEntry(events[i], events[j]) /\ events[i].op = "header"
    /\ \A i \in 1..Len(events) :
          \/ SameEntry(events[Len(events)], events[i])
          \/ /\ events[i].op \in {"open", "data"}
                   => \E j \in (i + 1)..Len(events) :
                          /\ SameEntry(events[j], events[i])
                          /\ events[j].op \in {"close", "finish"}
             /\ events[i].op = "header" /\ events[i].side = "unpack" /\ events[i].res = "OK"
                   => \E j \in (i + 1)..Len(events) :
                          SameEntry(events[j], events[i]) /\ events[j].op = "finish"
    /\ \A i, j \in 1..Len(events) :
          i < j /\ SameEntry(events[i], events[j]) /\ events[i].op \in {"close", "finish"}
              => events[j].op \notin {"header", "data", "open"}

\* pack has streamed a file, closed it and gone on to the next object, and
\* unpack has then written the body of a file, finished the entry and read
\* the next header
C21_Witness ==
    /\ \E i, j \in 1..Len(events) :
          /\ events[i].side = "pack" /\ events[i].op = "close"
          /\ events[j].side = "pack" /\ events[j].op = "header" /\ events[j].n > events[i].n
    /\ \E i, j \in 1..Len(events) :
          /\ events[i].side = "unpack" /\ events[i].op = "data"
          /\ events[j].side = "unpack" /\ events[j].op = "read_header"
          /\ events[j].n > events[i].n

(***************************************************************************)
(* Declared size and written body                                          *)
(***************************************************************************)
\* C22: after every addFile call, each regular-file header in the container
\* is followed by as many body bytes as the size it declares.
C22_BodyMatchesSize ==
    \A i \in 1..Len(a.entries) :
        a.entries[i].kind = "file" => Len(Flatten(a.entries[i].blocks)) = a.entries[i].size

(***************************************************************************)
(* Entries under a symlink entry                                           *)
(***************************************************************************)
\* C23: in the container pack writes, no entry has a path nested under the
\* path of a symlink entry of the same container.
C23_NothingUnderSymlink ==
    \A i, j \in 1..Len(a.entries) :
        a.entries[i].kind = "symlink"
            => ~(/\ IsPrefix(EntryComps(a.entries[i]), EntryComps(a.entries[j]))
                 /\ EntryComps(a.entries[i]) # EntryComps(a.entries[j]))

====
